---- MODULE Spec2Model ----
(***************************************************************************)
(* Model of the admission webhook of kube-mutating-webhook-tutorial:       *)
(*   - the Ingress TLS host normalizer (WebhookServer.mutate),             *)
(*   - the HTTP handler around it (WebhookServer.serve),                   *)
(*   - the pod sidecar patch helpers (addContainer, addVolume,             *)
(*     updateAnnotation, createPatch).                                     *)
(* Go strings that the code inspects character by character (host names,   *)
(* the DNS suffix) are sequences of one-character strings; opaque strings  *)
(* (uids, kinds, annotation keys) are TLA+ strings.                        *)
(***************************************************************************)
EXTENDS Integers, Sequences, FiniteSets, TLC

VARIABLES
    pc,                 \* position of the running handler / function
    dnsSuffix,          \* parameters.dnsSuffix, the -dnsSuffix flag
    request,            \* the *http.Request handed to serve
    body,               \* serve: body []byte
    ar,                 \* serve: ar v1beta1.AdmissionReview after Decode
    admissionResponse,  \* serve: admissionResponse (NoValue = nil)
    httpStatus,         \* status code committed on the ResponseWriter (0 = none yet)
    written,            \* what serve wrote to the ResponseWriter, in order
    admissionReview,    \* serve: admissionReview, the envelope to encode
    faults,             \* the errors the libraries returned to this call of serve
    stages,             \* stages of serve that have run, in order
    ingress,            \* mutate: the decoded extensionsv1beta1.Ingress
    patch,              \* mutate: patch []patchOperation
    ingress2,           \* the Ingress after the control plane applied patch
    patch2,             \* mutate's patch for ingress2
    pod,                \* createPatch: pod (containers, volumes, annotations)
    sidecarConfig,      \* createPatch: sidecarConfig
    annotations,        \* createPatch: annotations to add
    podPatch            \* createPatch: the operations, per helper and concatenated

vars == <<pc, dnsSuffix, request, body, ar, admissionResponse, admissionReview,
          faults, httpStatus, written, stages, ingress, patch, ingress2, patch2, pod, sidecarConfig, annotations,
          podPatch>>

gatewayVars == <<request, body, ar, admissionResponse, admissionReview, faults,
                 httpStatus, written, stages>>
ingressVars == <<ingress, patch, ingress2, patch2>>
podVars == <<pod, sidecarConfig, annotations, podPatch>>

\* Go's nil / a field that is absent.
NoValue == [none |-> TRUE]

----------------------------------------------------------------------------
(* Bounds of the model. *)

\* longest host name enumerated character by character
MaxHostLen == 4
\* most TLS blocks of an enumerated Ingress
MaxTLS == 2
\* most hosts of an enumerated Ingress, over all its TLS blocks
MaxHosts == 3
\* most containers / volumes of the pod
MaxTarget == 1
\* most containers / volumes of the sidecar configuration
MaxAdded == 2

----------------------------------------------------------------------------
(* Strings as character sequences. *)

Alpha == {"a","b","c","d","e","f","g","h","i","j","k","l","m","n","o","p","q","r",
          "s","t","u","v","w","x","y","z",
          "A","B","C","D","E","F","G","H","I","J","K","L","M","N","O","P","Q","R",
          "S","T","U","V","W","X","Y","Z"}
Digit == {"0","1","2","3","4","5","6","7","8","9"}
AlphaNum == Alpha \cup Digit

DigitStr == <<"0","1","2","3","4","5","6","7","8","9">>

\* fmt.Sprintf("%d", n) for n >= 0
RECURSIVE Itoa(_)
Itoa(n) == IF n < 10 THEN DigitStr[n + 1]
           ELSE Itoa(n \div 10) \o DigitStr[(n % 10) + 1]

\* strings.HasSuffix(s, ".")
HasSuffixDot(s) == Len(s) > 0 /\ s[Len(s)] = "."

\* strings.ContainsAny(s, ".")
ContainsDot(s) == \E k \in 1..Len(s) : s[k] = "."

\* validator.v9 hostnameRegexRFC952: ^[a-zA-Z][a-zA-Z0-9\-\.]+[a-zA-Z0-9]$
HostnameRFC952(s) ==
    /\ Len(s) >= 3
    /\ s[1] \in Alpha
    /\ s[Len(s)] \in AlphaNum
    /\ \A k \in 2..(Len(s) - 1) : s[k] \in AlphaNum \cup {"-", "."}

\* v.Var(host, "fqdn") == nil: validator.v9 isFQDN drops one trailing ".",
\* then requires a "." and a match of hostnameRegexRFC952.
IsFQDN(host) ==
    IF Len(host) = 0 THEN FALSE
    ELSE LET val == IF HasSuffixDot(host) THEN SubSeq(host, 1, Len(host) - 1)
                    ELSE host
         IN  ContainsDot(val) /\ HostnameRFC952(val)

\* the literal "eks.felipe-alfaro.com" of mutate (and of deployment.yaml)
FixedSuffix == <<"e","k","s",".","f","e","l","i","p","e","-","a","l","f","a","r","o",
                 ".","c","o","m">>

\* the literal "cafe.eks.felipe-alfaro.com" of mutate
FixedHost == <<"c","a","f","e",".">> \o FixedSuffix

----------------------------------------------------------------------------
(* WebhookServer.mutate: the Ingress TLS host normalizer. *)

ReplaceOp(path, value) == [Op |-> "replace", Path |-> path, Value |-> value]

\* patchOperation.Value holding a Go string / a Go []string
StringValue(s) == [kind |-> "string", v |-> s]
ListValue(l) == [kind |-> "list", v |-> l]

\* fmt.Sprintf("/spec/tls/%d/hosts", tlsIndex), as JSON-pointer tokens
HostsPath(tlsIndex) == <<"spec", "tls", Itoa(tlsIndex), "hosts">>

\* fmt.Sprintf("/spec/tls/%d/hosts/%d", tlsIndex, hostIndex)
HostPath(tlsIndex, hostIndex) ==
    <<"spec", "tls", Itoa(tlsIndex), "hosts", Itoa(hostIndex)>>

\* a plausible slip: the suffix is never appended
QualifyHost_NoSuffix(host) == IF ~HasSuffixDot(host) THEN host \o <<".">> ELSE host

\* newHost of the non-FQDN branch
QualifyHost(host) ==
    (IF ~HasSuffixDot(host) THEN host \o <<".">> ELSE host) \o FixedSuffix

\* a plausible slip: the FQDN check is skipped and every non-empty host is qualified
HostPatch_NoFQDNCheck(tlsIndex, hostIndex, host) ==
    IF Len(host) = 0
    THEN <<ReplaceOp(HostPath(tlsIndex, hostIndex), StringValue(FixedHost))>>
    ELSE <<ReplaceOp(HostPath(tlsIndex, hostIndex), StringValue(QualifyHost(host)))>>

\* the body of the loop over tls.Hosts: the operations for one host
\* (tlsIndex and hostIndex are Go's zero-based indices)
HostPatch(tlsIndex, hostIndex, host) ==
    IF Len(host) = 0
    THEN <<ReplaceOp(HostPath(tlsIndex, hostIndex), StringValue(FixedHost))>>
    ELSE IF IsFQDN(host)
         THEN <<>>
         ELSE <<ReplaceOp(HostPath(tlsIndex, hostIndex), StringValue(QualifyHost(host)))>>

\* for hostIndex, host := range tls.Hosts, from the k-th host on
RECURSIVE HostsPatch(_, _, _)
HostsPatch(tlsIndex, hosts, k) ==
    IF k > Len(hosts) THEN <<>>
    ELSE HostPatch(tlsIndex, k - 1, hosts[k]) \o HostsPatch(tlsIndex, hosts, k + 1)

\* the body of the loop over ingress.Spec.TLS: the operations for one block
TLSPatch(tlsIndex, tls) ==
    IF Len(tls.hosts) = 0
    THEN <<ReplaceOp(HostsPath(tlsIndex), ListValue(<<FixedHost>>))>>
    ELSE HostsPatch(tlsIndex, tls.hosts, 1)

\* for tlsIndex, tls := range ingress.Spec.TLS, from the k-th block on
RECURSIVE IngressPatchFrom(_, _)
IngressPatchFrom(ing, k) ==
    IF k > Len(ing.tls) THEN <<>>
    ELSE TLSPatch(k - 1, ing.tls[k]) \o IngressPatchFrom(ing, k + 1)

\* var patch []patchOperation after the loops
IngressPatch(ing) == IngressPatchFrom(ing, 1)

----------------------------------------------------------------------------
(* The control plane applying a JSON patch of replace operations (RFC 6902) *)
(* to the Ingress it sent: the consumer of mutate's patch.                  *)

MaxIndex == MaxTLS + MaxHosts + MaxHostLen

\* the array index a JSON-pointer token denotes
Atoi(tok) == CHOOSE n \in 0..MaxIndex : Itoa(n) = tok

ApplyOp(ing, op) ==
    LET i == Atoi(op.Path[3]) + 1
    IN  IF Len(op.Path) = 4
        THEN [ing EXCEPT !.tls[i].hosts = op.Value.v]
        ELSE [ing EXCEPT !.tls[i].hosts[Atoi(op.Path[5]) + 1] = op.Value.v]

RECURSIVE ApplyPatchFrom(_, _, _)
ApplyPatchFrom(ing, ops, k) ==
    IF k > Len(ops) THEN ing
    ELSE ApplyPatchFrom(ApplyOp(ing, ops[k]), ops, k + 1)

ApplyPatch(ing, ops) == ApplyPatchFrom(ing, ops, 1)

----------------------------------------------------------------------------
(* Inputs of the normalizer. *)

HostChars == {"a", "1", "-", ".", "_"}

\* every host name of at most MaxHostLen characters over HostChars
HostStrings == UNION {[1..n -> HostChars] : n \in 0..MaxHostLen}

\* an empty host, a short name, a short name with a trailing ".", an FQDN,
\* a name no suffix can qualify
SampleHosts == {<<>>, <<"a">>, <<"a", ".">>, <<"a", ".", "b", "c">>, <<"-", "a">>}

IngressNames == {<<"c","a","f","e">>, <<"w","e","b">>}

\* values of the -dnsSuffix flag (main refuses the empty one)
DNSSuffixes == {FixedSuffix, <<"e","x","a","m","p","l","e",".","c","o","m">>}

RECURSIVE SumTo(_, _)
SumTo(f, k) == IF k = 0 THEN 0 ELSE f[k] + SumTo(f, k - 1)

\* the TLS blocks whose host lists have the lengths shape[1], shape[2], ...
\* and hold the hosts of flat in order
SplitHosts(flat, shape) ==
    [b \in 1..Len(shape) |->
        [hosts |-> SubSeq(flat, SumTo(shape, b - 1) + 1, SumTo(shape, b))]]

\* Ingresses of at most MaxTLS blocks and MaxHosts hosts over SampleHosts
SampleTLS ==
    UNION {UNION {{SplitHosts(flat, shape) :
                      flat \in [1..SumTo(shape, b) -> SampleHosts]} :
                  shape \in {sh \in [1..b -> 0..MaxHosts] : SumTo(sh, b) <= MaxHosts}} :
           b \in 0..MaxTLS}

\* Ingresses of one block with one host, over every host of HostStrings
SingleHostTLS == {<<[hosts |-> <<h>>]>> : h \in HostStrings}

Ingresses == [name : IngressNames, tls : SampleTLS \cup SingleHostTLS]

----------------------------------------------------------------------------
(* The normalizer on its own: mutate's loops run on a decoded Ingress, the  *)
(* control plane applies the patch, and mutate runs on the result.          *)

GatewayIdle ==
    /\ request = NoValue
    /\ body = NoValue
    /\ ar = NoValue
    /\ admissionResponse = NoValue
    /\ admissionReview = NoValue
    /\ faults = NoValue
    /\ httpStatus = 0
    /\ written = <<>>
    /\ stages = <<>>

IngressIdle ==
    /\ ingress = NoValue
    /\ patch = <<>>
    /\ ingress2 = NoValue
    /\ patch2 = <<>>

PodIdle ==
    /\ pod = NoValue
    /\ sidecarConfig = NoValue
    /\ annotations = NoValue
    /\ podPatch = NoValue

InitIngress ==
    /\ pc = "unmarshalled"
    /\ dnsSuffix \in DNSSuffixes
    /\ ingress \in Ingresses
    /\ patch = <<>>
    /\ ingress2 = NoValue
    /\ patch2 = <<>>
    /\ GatewayIdle
    /\ PodIdle

\* mutate from the loop over ingress.Spec.TLS to the marshalling of patch
Normalize ==
    /\ pc = "unmarshalled"
    /\ patch' = IngressPatch(ingress)
    /\ pc' = "patched"
    /\ UNCHANGED <<dnsSuffix, ingress, ingress2, patch2, gatewayVars, podVars>>

\* the control plane applies the patch to the object it sent
PatchApplied ==
    /\ pc = "patched"
    /\ ingress2' = ApplyPatch(ingress, patch)
    /\ pc' = "applied"
    /\ UNCHANGED <<dnsSuffix, ingress, patch, patch2, gatewayVars, podVars>>

\* mutate on the patched Ingress
Renormalize ==
    /\ pc = "applied"
    /\ patch2' = IngressPatch(ingress2)
    /\ pc' = "renormalized"
    /\ UNCHANGED <<dnsSuffix, ingress, patch, ingress2, gatewayVars, podVars>>

NextIngress == Normalize \/ PatchApplied \/ Renormalize

SpecIngress == InitIngress /\ [][NextIngress]_vars

----------------------------------------------------------------------------
(* Properties of the normalizer, checked under SpecIngress. *)

Normalized == pc \in {"patched", "applied", "renormalized"}

\* the positions of the operations of ops that address path
OpsAt(ops, path) == {k \in 1..Len(ops) : ops[k].Path = path}

\* exactly one operation of ops addresses path, and it is op
OnlyOpAt(ops, path, op) ==
    /\ Cardinality(OpsAt(ops, path)) = 1
    /\ \A k \in OpsAt(ops, path) : ops[k] = op

\* "{ingressName}.{dnsSuffix}"
SynthesizedHost(name, suffix) == name \o <<".">> \o suffix

\* host, a "." unless it ends with one, then the suffix
Qualified(host, suffix) ==
    (IF HasSuffixDot(host) THEN host ELSE host \o <<".">>) \o suffix

\* C1: for every TLS block with no hosts mutate emits exactly one replace at
\* /spec/tls/i/hosts whose value is the list ["N.S"], and for every empty host of
\* a non-empty list exactly one replace at /spec/tls/i/hosts/j whose value is
\* "N.S", N the name of the Ingress and S the configured DNS suffix.
C1_SynthesizedFromNameAndSuffix ==
    Normalized =>
        \A i \in 1..Len(ingress.tls) :
            LET hosts == ingress.tls[i].hosts
                synth == SynthesizedHost(ingress.name, dnsSuffix)
            IN  /\ Len(hosts) = 0 =>
                       OnlyOpAt(patch, HostsPath(i - 1),
                                ReplaceOp(HostsPath(i - 1), ListValue(<<synth>>)))
                /\ \A j \in 1..Len(hosts) :
                       Len(hosts[j]) = 0 =>
                           OnlyOpAt(patch, HostPath(i - 1, j - 1),
                                    ReplaceOp(HostPath(i - 1, j - 1), StringValue(synth)))

\* C2: for every non-empty host that fails the FQDN check mutate emits exactly
\* one replace at /spec/tls/i/hosts/j whose value is the host, a "." unless the
\* host ends with one, and the DNS suffix given by the dnsSuffix parameter.
C2_QualifiedWithConfiguredSuffix ==
    Normalized =>
        \A i \in 1..Len(ingress.tls) :
            \A j \in 1..Len(ingress.tls[i].hosts) :
                LET host == ingress.tls[i].hosts[j]
                IN  (Len(host) > 0 /\ ~IsFQDN(host)) =>
                        OnlyOpAt(patch, HostPath(i - 1, j - 1),
                                 ReplaceOp(HostPath(i - 1, j - 1),
                                           StringValue(Qualified(host, dnsSuffix))))

\* every TLS block has hosts and every host is an FQDN
AllFQDN(ing) ==
    \A i \in 1..Len(ing.tls) :
        /\ Len(ing.tls[i].hosts) > 0
        /\ \A j \in 1..Len(ing.tls[i].hosts) : IsFQDN(ing.tls[i].hosts[j])

\* C3: no operation of the patch addresses a host that passes the FQDN check, nor
\* the host list it is in; an Ingress whose hosts are all FQDNs gets no operation.
C3_FQDNHostsUntouched ==
    Normalized =>
        /\ \A i \in 1..Len(ingress.tls) :
               \A j \in 1..Len(ingress.tls[i].hosts) :
                   IsFQDN(ingress.tls[i].hosts[j]) =>
                       /\ OpsAt(patch, HostPath(i - 1, j - 1)) = {}
                       /\ OpsAt(patch, HostsPath(i - 1)) = {}
        /\ AllFQDN(ingress) => Len(patch) = 0

\* mutate has run on an Ingress with an FQDN host beside a host it rewrites
C3_Witness ==
    /\ pc = "patched"
    /\ Len(patch) > 0
    /\ \E i \in 1..Len(ingress.tls) :
           \E j \in 1..Len(ingress.tls[i].hosts) : IsFQDN(ingress.tls[i].hosts[j])

\* a name that qualification turns into an FQDN: it starts with a letter and
\* holds only letters, digits, "-" and "."
RelativeName(host) ==
    /\ Len(host) > 0
    /\ host[1] \in Alpha
    /\ \A k \in 1..Len(host) : host[k] \in AlphaNum \cup {"-", "."}

\* the host at (i, j) was rewritten to an FQDN and the second run leaves it alone
SettledAt(i, j) ==
    /\ \A k \in OpsAt(patch, HostPath(i - 1, j - 1)) : IsFQDN(patch[k].Value.v)
    /\ OpsAt(patch, HostPath(i - 1, j - 1)) # {}
    /\ OpsAt(patch2, HostPath(i - 1, j - 1)) = {}

\* C10 as stated: for every non-empty host that fails the FQDN check the
\* replacement passes it and a second run emits nothing for the host; the
\* second run on a patched Ingress emits no operation at all.
C10_Idempotent ==
    pc = "renormalized" =>
        /\ \A i \in 1..Len(ingress.tls) :
               \A j \in 1..Len(ingress.tls[i].hosts) :
                   LET host == ingress.tls[i].hosts[j]
                   IN  (Len(host) > 0 /\ ~IsFQDN(host)) => SettledAt(i, j)
        /\ Len(patch2) = 0

\* every host of ing is empty, an FQDN or a relative name
AllQualifiable(ing) ==
    \A i \in 1..Len(ing.tls) :
        \A j \in 1..Len(ing.tls[i].hosts) :
            LET host == ing.tls[i].hosts[j]
            IN  Len(host) = 0 \/ IsFQDN(host) \/ RelativeName(host)

\* C10 amended: for every non-empty host that fails the FQDN check and is a
\* relative name (a letter first, then only letters, digits, "-" and ".") the
\* replacement passes the FQDN check and a second run emits nothing for the host;
\* when every host is empty, an FQDN or such a name, the second run emits no
\* operation at all.
C10_IdempotentOnRelativeNames ==
    pc = "renormalized" =>
        /\ \A i \in 1..Len(ingress.tls) :
               \A j \in 1..Len(ingress.tls[i].hosts) :
                   LET host == ingress.tls[i].hosts[j]
                   IN  (~IsFQDN(host) /\ RelativeName(host)) => SettledAt(i, j)
        /\ AllQualifiable(ingress) => Len(patch2) = 0

\* the second run is over for an Ingress with a relative name that was rewritten
C10_Witness ==
    /\ pc = "renormalized"
    /\ Len(patch) > 0
    /\ Len(patch2) = 0
    /\ \E i \in 1..Len(ingress.tls) :
           \E j \in 1..Len(ingress.tls[i].hosts) :
               /\ ~IsFQDN(ingress.tls[i].hosts[j])
               /\ RelativeName(ingress.tls[i].hosts[j])

----------------------------------------------------------------------------
(* WebhookServer.mutate and WebhookServer.serve: one HTTP request.          *)

\* a *v1beta1.AdmissionResponse
Response(allowed, patchBytes, message) ==
    [UID |-> "", Allowed |-> allowed, Patch |-> patchBytes, PatchType |-> NoValue,
     Result |-> message]

\* metav1.Status{Message: err.Error()}
StatusMessage(text) == [Message |-> text]

\* json.Marshal(patch): a nil slice is encoded as null, another one as the array
\* of its operations in order
MarshalPatch(ops) ==
    IF Len(ops) = 0 THEN [json |-> "null", ops |-> <<>>]
    ELSE [json |-> "array", ops |-> ops]

\* a plausible slip: the failure responses are marked allowed
FailureResponse_Allowed(text) == Response(TRUE, NoValue, StatusMessage(text))

\* &v1beta1.AdmissionResponse{Result: &metav1.Status{Message: err.Error()}}
FailureResponse(text) == Response(FALSE, NoValue, StatusMessage(text))

\* mutate for a review that has a request; marshalErr is the error of
\* json.Marshal(patch)
MutateResponse(req, marshalErr) ==
    IF req.Kind.Version = "v1beta1" /\ req.Kind.Kind = "Ingress"
    THEN IF ~req.Object.valid
         THEN FailureResponse("unmarshal Ingress")
         ELSE IF marshalErr
              THEN FailureResponse("marshal patch")
              ELSE Response(TRUE, MarshalPatch(IngressPatch(req.Object.ingress)), NoValue)
    ELSE Response(TRUE, NoValue, NoValue)

\* http.ResponseWriter.WriteHeader: the first status code stands
WriteHeader(status, code) == IF status = 0 THEN code ELSE status

\* what http.Error writes as the body
ErrorText(text) == [kind |-> "error", text |-> text, review |-> NoValue]

\* json.Marshal(admissionReview): the response under its wire names, a nil
\* Result, Patch or PatchType left out
MarshalReview(review) ==
    [kind |-> "review", text |-> "",
     review |-> [uid |-> review.Response.UID,
                 allowed |-> review.Response.Allowed,
                 status |-> review.Response.Result,
                 patch |-> review.Response.Patch,
                 patchType |-> review.Response.PatchType]]

\* ioutil.ReadAll(r.Body) when r.Body != nil and the read succeeds, else nil
ReadBody(r) ==
    IF r.Body.form \in {"nil", "readerror"}
    THEN [form |-> "empty", review |-> NoValue]
    ELSE r.Body

\* deserializer.Decode(body, nil, &ar)
Decode(b) ==
    IF b.form = "review" THEN [err |-> FALSE, ar |-> b.review]
    ELSE [err |-> TRUE, ar |-> [Request |-> NoValue]]

\* a plausible slip: the uid of the request is not copied
Assemble_NoUID(response, review) == [Response |-> response]

\* admissionReview.Response = admissionResponse, with the uid of the request
\* when the review has one
Assemble(response, review) ==
    [Response |-> IF review.Request # NoValue
                  THEN [response EXCEPT !.UID = review.Request.UID]
                  ELSE response]

----------------------------------------------------------------------------
(* Inputs of serve. *)

UIDs == {"uid-1", "uid-2"}

Kinds == {[Version |-> "v1beta1", Kind |-> "Ingress"],
          [Version |-> "v1", Kind |-> "Ingress"],
          [Version |-> "v1", Kind |-> "Pod"],
          [Version |-> "v1beta1", Kind |-> "Deployment"]}

HostA == <<"a">>
HostFQDN == <<"a", ".", "b", "c">>

\* req.Object.Raw: bytes that do not unmarshal into an Ingress, or an Ingress
RawObjects ==
    {[valid |-> FALSE, ingress |-> NoValue]} \cup
    {[valid |-> TRUE, ingress |-> i] :
        i \in {[name |-> <<"w","e","b">>, tls |-> <<>>],
               [name |-> <<"w","e","b">>, tls |-> <<[hosts |-> <<>>]>>],
               [name |-> <<"c","a","f","e">>, tls |-> <<[hosts |-> <<HostFQDN>>]>>],
               [name |-> <<"w","e","b">>, tls |-> <<[hosts |-> <<HostFQDN, HostA>>]>>]}}

AdmissionRequests == [UID : UIDs, Kind : Kinds, Object : RawObjects]

\* the body: no body, a body whose read fails, no bytes, bytes that are no
\* AdmissionReview, a review without a request, a review with a request
Bodies ==
    {[form |-> f, review |-> NoValue] : f \in {"nil", "readerror", "empty", "garbage"}}
    \cup {[form |-> "review", review |-> [Request |-> NoValue]]}
    \cup {[form |-> "review", review |-> [Request |-> q]] : q \in AdmissionRequests}

ContentTypes == {"application/json", "text/plain", ""}

Requests == [Body : Bodies, ContentType : ContentTypes]

NoFaults == [patchMarshal |-> FALSE, encode |-> FALSE, write |-> FALSE]

----------------------------------------------------------------------------
(* The handler, stage by stage. *)

Init ==
    /\ pc = "idle"
    /\ dnsSuffix \in DNSSuffixes
    /\ GatewayIdle
    /\ IngressIdle
    /\ PodIdle

\* mux.HandleFunc("/mutate", whsvr.serve): a request arrives
Accept ==
    /\ pc = "idle"
    /\ \E r \in Requests : request' = r
    /\ faults' = NoFaults
    /\ pc' = "ReceiveBody"
    /\ UNCHANGED <<dnsSuffix, body, ar, admissionResponse, admissionReview, httpStatus,
                   written, stages, ingressVars, podVars>>

\* the body is read; an empty one ends the call with 400
ReceiveBody ==
    /\ pc = "ReceiveBody"
    /\ body' = ReadBody(request)
    /\ stages' = Append(stages, "ReceiveBody")
    /\ IF body'.form = "empty"
       THEN /\ httpStatus' = WriteHeader(httpStatus, 400)
            /\ written' = Append(written, ErrorText("empty body"))
            /\ pc' = "done"
       ELSE /\ pc' = "ValidateContentType"
            /\ UNCHANGED <<httpStatus, written>>
    /\ UNCHANGED <<dnsSuffix, request, ar, admissionResponse, admissionReview, faults,
                   ingressVars, podVars>>

\* another content type than application/json ends the call with 415
ValidateContentType ==
    /\ pc = "ValidateContentType"
    /\ stages' = Append(stages, "ValidateContentType")
    /\ IF request.ContentType # "application/json"
       THEN /\ httpStatus' = WriteHeader(httpStatus, 415)
            /\ written' = Append(written, ErrorText("invalid Content-Type"))
            /\ pc' = "done"
       ELSE /\ pc' = "Decode"
            /\ UNCHANGED <<httpStatus, written>>
    /\ UNCHANGED <<dnsSuffix, request, body, ar, admissionResponse, admissionReview,
                   faults, ingressVars, podVars>>

\* the body is decoded; a failure makes the response itself and skips mutate
DecodeReview ==
    /\ pc = "Decode"
    /\ stages' = Append(stages, "Decode")
    /\ ar' = Decode(body).ar
    /\ IF Decode(body).err
       THEN /\ admissionResponse' = FailureResponse("decode body")
            /\ pc' = "AssembleResponse"
       ELSE /\ pc' = "Mutate"
            /\ UNCHANGED admissionResponse
    /\ UNCHANGED <<dnsSuffix, request, body, admissionReview, faults, httpStatus,
                   written, ingressVars, podVars>>

\* whsvr.mutate(&ar): req.Kind is read through ar.Request, which panics when the
\* review has no request
Mutate ==
    /\ pc = "Mutate"
    /\ stages' = Append(stages, "Dispatch&Mutate")
    /\ IF ar.Request = NoValue
       THEN /\ pc' = "panic"
            /\ UNCHANGED <<admissionResponse, faults>>
       ELSE /\ \E marshalErr \in BOOLEAN :
                  /\ admissionResponse' = MutateResponse(ar.Request, marshalErr)
                  /\ faults' = [faults EXCEPT !.patchMarshal =
                                   /\ marshalErr
                                   /\ admissionResponse' = FailureResponse("marshal patch")]
            /\ pc' = "AssembleResponse"
    /\ UNCHANGED <<dnsSuffix, request, body, ar, admissionReview, httpStatus, written,
                   ingressVars, podVars>>

\* the envelope is built around the response, which it shares
AssembleResponse ==
    /\ pc = "AssembleResponse"
    /\ stages' = Append(stages, "AssembleResponse")
    /\ admissionReview' = Assemble(admissionResponse, ar)
    /\ admissionResponse' = admissionReview'.Response
    /\ pc' = "Encode&Write"
    /\ UNCHANGED <<dnsSuffix, request, body, ar, faults, httpStatus, written,
                   ingressVars, podVars>>

\* json.Marshal(admissionReview), then w.Write(resp); encodeErr and writeErr are
\* the errors the two return. After an encode error serve goes on to write the
\* nil resp; after a write error the status of the write stands.
EncodeAndWrite ==
    /\ pc = "Encode&Write"
    /\ stages' = Append(stages, "Encode&Write")
    /\ \E encodeErr \in BOOLEAN, writeErr \in BOOLEAN :
           LET status1 == IF encodeErr THEN WriteHeader(httpStatus, 500) ELSE httpStatus
               written1 == IF encodeErr
                           THEN Append(written, ErrorText("could not encode response"))
                           ELSE written
               status2 == WriteHeader(status1, 200)
               written2 == IF writeErr \/ encodeErr THEN written1
                           ELSE Append(written1, MarshalReview(admissionReview))
           IN  /\ httpStatus' = WriteHeader(status2, 500)
               /\ written' = written2
               /\ faults' = [faults EXCEPT !.encode = encodeErr, !.write = writeErr]
    /\ pc' = "done"
    /\ UNCHANGED <<dnsSuffix, request, body, ar, admissionResponse, admissionReview,
                   ingressVars, podVars>>

Next ==
    \/ Accept
    \/ ReceiveBody
    \/ ValidateContentType
    \/ DecodeReview
    \/ Mutate
    \/ AssembleResponse
    \/ EncodeAndWrite

Spec == Init /\ [][Next]_vars

----------------------------------------------------------------------------
(* Properties of the handler, checked under Spec. *)

\* the AdmissionReviews serve wrote to the ResponseWriter
WrittenReviews == {written[k].review : k \in {n \in 1..Len(written) : written[n].kind = "review"}}

\* the request of the review the client sent, when it sent one
SentRequest == request.Body.review.Request

ReviewSent == request # NoValue /\ request.Body.form = "review"

RequestSent == ReviewSent /\ SentRequest # NoValue

\* len(body) == 0 in serve
EmptyBody == request # NoValue /\ request.Body.form \in {"nil", "readerror", "empty"}

JSONContent == request # NoValue /\ request.ContentType = "application/json"

\* the body is no AdmissionReview
EnvelopeDecodeFailure == request # NoValue /\ request.Body.form = "garbage"

HandledKind ==
    RequestSent /\ SentRequest.Kind.Version = "v1beta1" /\ SentRequest.Kind.Kind = "Ingress"

\* the object of an Ingress request does not unmarshal
ObjectDecodeFailure == HandledKind /\ ~SentRequest.Object.valid

\* json.Marshal(patch) returned an error
PatchMarshalFailure == faults # NoValue /\ faults.patchMarshal

FailurePath == EnvelopeDecodeFailure \/ ObjectDecodeFailure \/ PatchMarshalFailure

\* C4 as stated: every AdmissionResponse written inside an HTTP 200 envelope has
\* allowed = true, on every path.
C4_AlwaysAllowed ==
    httpStatus = 200 => \A r \in WrittenReviews : r.allowed = TRUE

\* C4 amended: an AdmissionResponse written inside an HTTP 200 envelope has
\* allowed = true when mutate produced a patch (empty or not) or the kind is not
\* handled; after an envelope decode failure, an Ingress decode failure or a
\* patch marshal failure it has allowed = false, a status message and no patch.
C4_AllowedUnlessFailure ==
    httpStatus = 200 =>
        \A r \in WrittenReviews :
            /\ r.allowed = ~FailurePath
            /\ FailurePath => (r.status # NoValue /\ r.patch = NoValue)
            /\ ~FailurePath => r.status = NoValue

\* serve wrote the response of a failure path, and it is not allowed
C4_Witness ==
    /\ pc = "done"
    /\ httpStatus = 200
    /\ ObjectDecodeFailure
    /\ \E r \in WrittenReviews : ~r.allowed

\* C5: when the body decodes as an admission envelope with a request, the
\* response serve builds and the one it writes carry the uid of that request,
\* whatever mutate returned.
C5_UIDEchoed ==
    RequestSent =>
        /\ admissionReview # NoValue =>
               admissionReview.Response.UID = SentRequest.UID
        /\ \A r \in WrittenReviews : r.uid = SentRequest.UID

\* serve wrote the response to a request whose object did not unmarshal
C5_Witness ==
    /\ pc = "done"
    /\ RequestSent
    /\ ObjectDecodeFailure
    /\ \E r \in WrittenReviews : r.uid = "uid-2"

StageOrder == <<"ReceiveBody", "ValidateContentType", "Decode", "Dispatch&Mutate",
                "AssembleResponse", "Encode&Write">>

StageIndex(stage) == CHOOSE k \in 1..Len(StageOrder) : StageOrder[k] = stage

\* the stages that ran, ran in the order of StageOrder, each at most once
InStageOrder ==
    \A k \in 1..(Len(stages) - 1) : StageIndex(stages[k]) < StageIndex(stages[k + 1])

MutateInvoked == \E k \in 1..Len(stages) : stages[k] = "Dispatch&Mutate"

IOFailure == faults # NoValue /\ (faults.encode \/ faults.write)

\* C6: every call of serve runs its stages in order and ends in one outcome with
\* one HTTP result: 400 for an empty body (mutate not invoked, no envelope
\* written), 415 for a non-empty body and another content type (mutate not
\* invoked), 500 only on an encode or write failure, otherwise 200 with one
\* encoded AdmissionReview written; a decode failure of the envelope or of the
\* embedded object ends in the 200 outcome with a status message and no patch,
\* and so does a decoded envelope that has no request.
C6_Lifecycle ==
    /\ InStageOrder
    /\ pc # "panic"
    /\ pc = "done" =>
           /\ httpStatus \in {200, 400, 415, 500}
           /\ EmptyBody =>
                  httpStatus = 400 /\ ~MutateInvoked /\ WrittenReviews = {}
           /\ (~EmptyBody /\ ~JSONContent) =>
                  httpStatus = 415 /\ ~MutateInvoked /\ WrittenReviews = {}
           /\ httpStatus = 500 => IOFailure
           /\ (~EmptyBody /\ JSONContent /\ ~IOFailure) =>
                  /\ httpStatus = 200
                  /\ Cardinality(WrittenReviews) = 1
                  /\ Len(written) = 1
                  /\ (EnvelopeDecodeFailure \/ ObjectDecodeFailure) =>
                         \A r \in WrittenReviews : r.status # NoValue /\ r.patch = NoValue

\* v1beta1.PatchTypeJSONPatch
PatchTypeJSONPatch == [type |-> "JSONPatch"]

\* C7: every AdmissionResponse that carries a patch carries patchType =
\* "JSONPatch", as mutate returns it and as serve writes it.
C7_PatchHasPatchType ==
    /\ (admissionResponse # NoValue /\ admissionResponse.Patch # NoValue) =>
           admissionResponse.PatchType = PatchTypeJSONPatch
    /\ \A r \in WrittenReviews : r.patch # NoValue => r.patchType = PatchTypeJSONPatch

----------------------------------------------------------------------------
(* addContainer, addVolume, updateAnnotation, createPatch.                  *)

AddOp(path, value) == [Op |-> "add", Path |-> path, Value |-> value]

\* patchOperation.Value holding one container or volume
ItemValue(item) == [kind |-> "item", v |-> item]

\* patchOperation.Value holding map[string]string{key: value}
MapValue(key, value) == [kind |-> "map", v |-> [key |-> key, value |-> value]]

\* the loop of addContainer and of addVolume from the k-th configured item on,
\* first being the flag of the same name
RECURSIVE AddLoop(_, _, _, _)
AddLoop(added, k, first, basePath) ==
    IF k > Len(added) THEN <<>>
    ELSE <<IF first THEN AddOp(basePath, ListValue(<<added[k]>>))
           ELSE AddOp(Append(basePath, "-"), ItemValue(added[k]))>>
         \o AddLoop(added, k + 1, FALSE, basePath)

\* a plausible slip: the empty target list is not told apart
addContainer_NeverFirst(target, added, basePath) == AddLoop(added, 1, FALSE, basePath)

addContainer(target, added, basePath) == AddLoop(added, 1, Len(target) = 0, basePath)

addVolume(target, added, basePath) == AddLoop(added, 1, Len(target) = 0, basePath)

\* a Go map[string]string: nil, or the keys it holds with their values
NilMap == [nil |-> TRUE, m |-> [k \in {} |-> ""]]
EmptyMap == [nil |-> FALSE, m |-> [k \in {} |-> ""]]

\* target[key]: the zero value "" for a key the map lacks (and for a nil map)
Lookup(map, key) == IF key \in DOMAIN map.m THEN map.m[key] ELSE ""

\* the loop of updateAnnotation, added being ranged over in the order `order`,
\* from its k-th key on; the add branch replaces target by an empty map
RECURSIVE UpdateLoop(_, _, _, _)
UpdateLoop(target, added, order, k) ==
    IF k > Len(order) THEN <<>>
    ELSE LET key == order[k]
             value == added[key]
         IN  IF target.nil \/ Lookup(target, key) = ""
             THEN <<AddOp(<<"metadata", "annotations">>, MapValue(key, value))>>
                  \o UpdateLoop(EmptyMap, added, order, k + 1)
             ELSE <<ReplaceOp(<<"metadata", "annotations", key>>, StringValue(value))>>
                  \o UpdateLoop(target, added, order, k + 1)

\* updateAnnotation, `order` being the order in which Go ranges over added
updateAnnotation(target, added, order) == UpdateLoop(target, added, order, 1)

\* var patch of createPatch before json.Marshal
createPatchOps(p, config, added, order) ==
    addContainer(p.Containers, config.Containers, <<"spec", "containers">>)
    \o addVolume(p.Volumes, config.Volumes, <<"spec", "volumes">>)
    \o updateAnnotation(p.Annotations, added, order)

createPatch(p, config, added, order) == MarshalPatch(createPatchOps(p, config, added, order))

----------------------------------------------------------------------------
(* Inputs of createPatch. *)

SeqsUpTo(S, n) == UNION {[1..k -> S] : k \in 0..n}

AnnotationKeys == {"key-1", "key-2"}

\* the maps from some of the keys to values of V
MapsOver(V) == UNION {[K -> V] : K \in SUBSET AnnotationKeys}

Pods ==
    [Containers : SeqsUpTo({"app"}, MaxTarget),
     Volumes : SeqsUpTo({"data"}, MaxTarget),
     Annotations : {NilMap} \cup {[nil |-> FALSE, m |-> f] : f \in MapsOver({"", "old"})}]

Configs ==
    [Containers : SeqsUpTo({"sidecar-a", "sidecar-b"}, MaxAdded),
     Volumes : SeqsUpTo({"vol-a"}, MaxAdded)]

\* the orders in which Go may range over a map with the keys K
RangeOrders(K) ==
    {o \in [1..Cardinality(K) -> K] : \A a, b \in 1..Cardinality(K) : o[a] = o[b] => a = b}

InitPod ==
    /\ pc = "pod"
    /\ dnsSuffix \in DNSSuffixes
    /\ pod \in Pods
    /\ sidecarConfig \in Configs
    /\ annotations \in MapsOver({"new"})
    /\ podPatch = NoValue
    /\ GatewayIdle
    /\ IngressIdle

\* createPatch(pod, sidecarConfig, annotations) and the three helpers it calls
CreatePatch ==
    /\ pc = "pod"
    /\ \E order \in RangeOrders(DOMAIN annotations) :
           podPatch' =
               [containers |-> addContainer(pod.Containers, sidecarConfig.Containers,
                                            <<"spec", "containers">>),
                volumes |-> addVolume(pod.Volumes, sidecarConfig.Volumes,
                                      <<"spec", "volumes">>),
                annotations |-> updateAnnotation(pod.Annotations, annotations, order),
                bytes |-> createPatch(pod, sidecarConfig, annotations, order)]
    /\ pc' = "created"
    /\ UNCHANGED <<dnsSuffix, pod, sidecarConfig, annotations, gatewayVars, ingressVars>>

NextPod == CreatePatch

SpecPod == InitPod /\ [][NextPod]_vars

----------------------------------------------------------------------------
(* Properties of the sidecar patch, checked under SpecPod. *)

\* the k-th of the n operations that add the configured items to a target list
ExpectedAdd(target, added, basePath, k) ==
    IF Len(target) = 0 /\ k = 1
    THEN [Op |-> "add", Path |-> basePath, Value |-> ListValue(<<added[1]>>)]
    ELSE [Op |-> "add", Path |-> basePath \o <<"-">>, Value |-> ItemValue(added[k])]

AddsAsExpected(ops, target, added, basePath) ==
    /\ Len(ops) = Len(added)
    /\ \A k \in 1..Len(added) :
           /\ ops[k].Op = "add"
           /\ ops[k].Path = ExpectedAdd(target, added, basePath, k).Path
           /\ ops[k].Value.kind = ExpectedAdd(target, added, basePath, k).Value.kind
           /\ ops[k].Value.v = ExpectedAdd(target, added, basePath, k).Value.v

\* C8: addContainer and addVolume return one add per configured item, in
\* configuration order: for an empty target list the first at the base path with
\* the one-element list of the first item and the others at basePath/-, for a
\* non-empty one all at basePath/-; createPatch holds the container operations,
\* then the volume operations, then the annotation operations.
C8_OneAddPerItem ==
    pc = "created" =>
        /\ AddsAsExpected(podPatch.containers, pod.Containers, sidecarConfig.Containers,
                          <<"spec", "containers">>)
        /\ AddsAsExpected(podPatch.volumes, pod.Volumes, sidecarConfig.Volumes,
                          <<"spec", "volumes">>)
        /\ podPatch.bytes.ops =
               podPatch.containers \o podPatch.volumes \o podPatch.annotations

\* createPatch has run on a pod without containers and with volumes, for a
\* configuration of two containers and a volume, and annotations
C8_Witness ==
    /\ pc = "created"
    /\ Len(pod.Containers) = 0
    /\ Len(pod.Volumes) > 0
    /\ Len(sidecarConfig.Containers) = 2
    /\ Len(sidecarConfig.Volumes) > 0
    /\ Len(podPatch.annotations) > 0

\* the pod has a non-empty value for key
HasValue(map, key) == ~map.nil /\ Lookup(map, key) # ""

IsAddOf(op, key, value) ==
    /\ op.Op = "add"
    /\ op.Path = <<"metadata", "annotations">>
    /\ op.Value = MapValue(key, value)

IsReplaceOf(op, key, value) ==
    /\ op.Op = "replace"
    /\ op.Path = <<"metadata", "annotations", key>>
    /\ op.Value = StringValue(value)

\* C9: updateAnnotation emits one operation per configured key, whatever the
\* order of the keys: a replace at /metadata/annotations/key when the pod's map
\* has a non-empty value for the key, else an add at /metadata/annotations of
\* {key: value}.
C9_AddOrReplacePerKey ==
    pc = "created" =>
        /\ Len(podPatch.annotations) = Cardinality(DOMAIN annotations)
        /\ \A key \in DOMAIN annotations :
               LET ops == podPatch.annotations
                   adds == {k \in 1..Len(ops) : IsAddOf(ops[k], key, annotations[key])}
                   replaces == {k \in 1..Len(ops) :
                                   IsReplaceOf(ops[k], key, annotations[key])}
               IN  /\ Cardinality(adds) + Cardinality(replaces) = 1
                   /\ HasValue(pod.Annotations, key) <=> replaces # {}
                   /\ ~HasValue(pod.Annotations, key) <=> adds # {}

====
